---- MODULE Spec2Model ----
(***************************************************************************)
(* Dataset adapters of tbd/data/datasets.py: ProgramPriorDataset,          *)
(* QuestionCodingDataset and ModuleTrainingDataset over the token and      *)
(* feature readers of tbd.data.readers, with numpy's process-wide random   *)
(* generator that QuestionCodingDataset.__init__ draws from.               *)
(*                                                                         *)
(* Python sequences are functions over 0..n-1, so that indices are the     *)
(* source's indices.  A call's outcome is [status, value]: "ok" with the   *)
(* returned value, or "raised" with the error.                             *)
(***************************************************************************)
EXTENDS Integers, FiniteSets, Sequences, TLC

VARIABLES
    rng,      \* state of numpy's global generator (np.random)
    pp,       \* the ProgramPriorDataset object, or NoDataset
    qc,       \* the QuestionCodingDataset objects, by instance
    mt,       \* the ModuleTrainingDataset object, or NoDataset
    result    \* the last call of the caller and what it got back

vars == <<rng, pp, qc, mt, result>>

----------------------------------------------------------------------------
(* Bounds of the model. *)

\* Token files hold 0..MaxSize examples (more than the overfit prefix).
MaxSize == 6
\* QuestionCodingDataset is built over token files of at most this size.
MaxQCSize == 3
\* Feature files hold 0..MaxImages image records.
MaxImages == 3
\* Number of states of the random generator (3! covers every draw order
\* over MaxQCSize examples).
NumStates == 6

(* Program constants. *)

\* datasets.py:122, the overfit prefix  self._tokens[:5]
OverfitSize == 5
\* datasets.py:55, the default of num_supervision
DefaultNumSupervision == 699989

Splits == {"train", "val"}
NoDataset == [kind |-> "none"]
QCIds == {1, 2}

Min(a, b) == IF a < b THEN a ELSE b
Range0(n) == 0 .. (n - 1)
Len0(f) == Cardinality(DOMAIN f)

----------------------------------------------------------------------------
(* The on-disk files and the readers over them (tbd.data.readers).         *)

TokenPaths == [size : 0 .. MaxSize, split : Splits, variant : {0, 1}]
QCPaths == {p \in TokenPaths : p.size <= MaxQCSize}
FeaturePaths == [images : 0 .. MaxImages]

\* The example record stored at position i of the token file: token id
\* sequences with start/end markers, an answer id and the image's index.
ExampleRecord(path, i) ==
    [question    |-> <<1, 10 + 2 * i + path.variant, 2>>,
     program     |-> <<1, 20 + i + 3 * path.variant, 2>>,
     answer      |-> 30 + ((i + path.variant) % 3),
     image_index |-> ((path.size - 1 - i) \div 2) + path.variant]

FeatureRecord(j) == [features |-> <<100 + j, 200 + j>>]

\* How a call ends: with the value it returns, or with the error it raises.
Returned(value) == [status |-> "ok", value |-> value]
Raised(error) == [status |-> "raised", value |-> [error |-> error]]

\* ClevrTokensReader(tokens_hdfpath)
ClevrTokensReader(path) ==
    [split |-> path.split,
     items |-> [i \in Range0(path.size) |-> ExampleRecord(path, i)]]

\* ClevrFeaturesReader(features_hdfpath, in_memory)
ClevrFeaturesReader(path, in_memory) ==
    [in_memory |-> in_memory,
     records   |-> [j \in Range0(path.images) |-> FeatureRecord(j)]]

\* len(reader)
TokensReader_len(reader) == Len0(reader.items)

\* reader[index]
TokensReader_getitem(reader, index) ==
    IF index \in DOMAIN reader.items
    THEN Returned(reader.items[index])
    ELSE Raised("IndexError")

\* reader[:stop], the prefix of the reader (Python clamps stop to len)
TokensReader_prefix(reader, stop) ==
    [split |-> reader.split,
     items |-> [i \in Range0(Min(stop, Len0(reader.items))) |-> reader.items[i]]]

\* reader[image_index]
FeaturesReader_getitem(reader, image_index) ==
    IF image_index \in DOMAIN reader.records
    THEN Returned(reader.records[image_index])
    ELSE Raised("KeyError")

----------------------------------------------------------------------------
(* numpy and torch.                                                        *)

\* A float64 is [whole, frac]; np.zeros gives 0.0 everywhere.
Float(n) == [whole |-> n, frac |-> 0]
np_zeros(n) == [i \in Range0(n) |-> Float(0)]

\* torch.tensor(ints).long(): an int64 copy of integer data.
TensorOfInts(x) == x
\* torch.tensor(float64 array).long(): truncation towards zero (values >= 0).
TensorLong(arr) == [i \in DOMAIN arr |-> arr[i].whole]

RECURSIVE Factorial(_)
Factorial(n) == IF n <= 1 THEN 1 ELSE n * Factorial(n - 1)

\* The pool with the element at position j (0-based) removed.
RemoveAt(pool, j) ==
    [i \in 1 .. (Len(pool) - 1) |-> IF i <= j THEN pool[i] ELSE pool[i + 1]]

\* The permutation of pool that the code (a factoradic number) selects.
RECURSIVE PermutationOf(_, _)
PermutationOf(code, pool) ==
    IF Len(pool) = 0 THEN <<>>
    ELSE LET j == code % Len(pool)
         IN  <<pool[j + 1]>> \o PermutationOf(code \div Len(pool), RemoveAt(pool, j))

\* np.random.permutation(n) from generator state `state`.
np_random_permutation(state, n) ==
    PermutationOf(state % Factorial(n), [i \in 1 .. n |-> i - 1])

\* The generator state after one draw.
np_random_advance(state) == (state + 1) % NumStates

\* np.random.choice(np.arange(n), replace=True, size=size): independent draws.
np_random_choice_with_replacement(state, n, size) ==
    [i \in Range0(size) |-> (state \div (n ^ i)) % n]

\* np.random.choice(np.arange(n), replace=False, size=size), size <= n:
\* the first `size` entries of a permutation of 0..n-1.
np_random_choice(state, n, size) ==
    [i \in Range0(size) |-> np_random_permutation(state, n)[i + 1]]

----------------------------------------------------------------------------
(* What the caller sees.                                                   *)

Outcome(op, ds, index, status, value) ==
    [op |-> op, ds |-> ds, index |-> index, status |-> status, value |-> value]
PP == [kind |-> "pp", id |-> 0]
QC(d) == [kind |-> "qc", id |-> d]
MT == [kind |-> "mt", id |-> 0]
Env == [kind |-> "env", id |-> 0]
Nothing == [none |-> TRUE]

\* A tensor that shares the storage of instance d's supervision list: the
\* whole list, or the 0-dim view of entry `at`.
WholeOf(d) == [storage |-> d, whole |-> TRUE, at |-> 0]
EntryOf(d, i) == [storage |-> d, whole |-> FALSE, at |-> i]
\* The values a tensor over that storage holds now.
Read(view) ==
    IF view.whole THEN qc[view.storage]._supervision_list
    ELSE qc[view.storage]._supervision_list[view.at]

\* np.random.seed(s) in the training script.
Seed(s) ==
    /\ rng' = s
    /\ result' = Outcome("seed", Env, s, "ok", Nothing)
    /\ UNCHANGED <<pp, qc, mt>>

----------------------------------------------------------------------------
(* ProgramPriorDataset                                                     *)

ProgramPriorDataset_init(tokens_hdfpath) ==
    /\ pp' = [kind |-> "pp",
              _reader |-> ClevrTokensReader(tokens_hdfpath),
              from_path |-> tokens_hdfpath]
    /\ result' = Outcome("init", PP, 0, "ok", Nothing)
    /\ UNCHANGED <<rng, qc, mt>>

ProgramPriorDataset_len_return == TokensReader_len(pp._reader)

ProgramPriorDataset_getitem_return(index) ==
    LET item == TokensReader_getitem(pp._reader, index)
    IN  IF item.status = "raised" THEN item
        ELSE Returned([program |-> TensorOfInts(item.value.program)])

ProgramPriorDataset_split_return == pp._reader.split

ProgramPriorDataset_len ==
    /\ pp # NoDataset
    /\ result' = Outcome("len", PP, 0, "ok", [len |-> ProgramPriorDataset_len_return])
    /\ UNCHANGED <<rng, pp, qc, mt>>

ProgramPriorDataset_getitem(index) ==
    /\ pp # NoDataset
    /\ LET r == ProgramPriorDataset_getitem_return(index)
       IN  result' = Outcome("get", PP, index, r.status, r.value)
    /\ UNCHANGED <<rng, pp, qc, mt>>

ProgramPriorDataset_split ==
    /\ pp # NoDataset
    /\ result' = Outcome("split", PP, 0, "ok", [split |-> ProgramPriorDataset_split_return])
    /\ UNCHANGED <<rng, pp, qc, mt>>

----------------------------------------------------------------------------
(* QuestionCodingDataset                                                   *)

\* The values of num_supervision the constructor is called with.
SupervisionCounts == (0 .. (MaxQCSize + 1)) \cup {DefaultNumSupervision}
\* The indices the caller asks for (valid ones and ones past the end).
Indices == 0 .. MaxSize

\* The guard with <= in place of <.
QuestionCodingDataset_samples_le(tokens, num_supervision) ==
    tokens.split = "train" /\ num_supervision <= TokensReader_len(tokens)

\* Line 61: whether __init__ takes the sampling branch.
QuestionCodingDataset_samples(tokens, num_supervision) ==
    tokens.split = "train" /\ num_supervision < TokensReader_len(tokens)

\* The positions of arr named by the index array idx set to value:
\* arr[idx] = value.
SetAt(arr, idx, value) ==
    [i \in DOMAIN arr |-> IF \E j \in DOMAIN idx : idx[j] = i THEN value ELSE arr[i]]

\* arr += 1
AddOne(arr) == [i \in DOMAIN arr |-> [arr[i] EXCEPT !.whole = @ + 1]]

\* Line 68 dedented: the += 1 runs after the sampling branch too.
QuestionCodingDataset_supervision_list_dedent(tokens, num_supervision, state) ==
    LET n == TokensReader_len(tokens)
        zeros == np_zeros(n)
    IN  IF QuestionCodingDataset_samples(tokens, num_supervision)
        THEN TensorLong(AddOne(SetAt(zeros, np_random_choice(state, n, num_supervision),
                                     Float(1))))
        ELSE TensorLong(AddOne(zeros))

\* The sample drawn over the examples' image indices, not their positions.
QuestionCodingDataset_supervision_list_by_image(tokens, num_supervision, state) ==
    LET n == TokensReader_len(tokens)
        zeros == np_zeros(n)
        rows == np_random_choice(state, n, num_supervision)
    IN  IF QuestionCodingDataset_samples(tokens, num_supervision)
        THEN TensorLong(SetAt(zeros,
                 [j \in DOMAIN rows |-> tokens.items[rows[j]].image_index], Float(1)))
        ELSE TensorLong(AddOne(zeros))

\* Lines 58-70: the supervision list __init__ computes from the reader,
\* num_supervision and the state of the global generator.
QuestionCodingDataset_supervision_list(tokens, num_supervision, state) ==
    LET n == TokensReader_len(tokens)
        zeros == np_zeros(n)
    IN  IF QuestionCodingDataset_samples(tokens, num_supervision)
        THEN TensorLong(SetAt(zeros, np_random_choice(state, n, num_supervision),
                              Float(1)))
        ELSE TensorLong(AddOne(zeros))

\* from_path, num_supervision, rng_at, sampled, constructed_list and written
\* record the construction and the caller's writes; the code reads none.
QuestionCodingDataset_init(d, tokens_hdfpath, num_supervision) ==
    LET tokens == ClevrTokensReader(tokens_hdfpath)
        sampled == QuestionCodingDataset_samples(tokens, num_supervision)
        list == QuestionCodingDataset_supervision_list(tokens, num_supervision, rng)
    IN  /\ qc' = [qc EXCEPT ![d] =
                    [kind |-> "qc",
                     _tokens |-> tokens,
                     _supervision_list |-> list,
                     from_path |-> tokens_hdfpath,
                     num_supervision |-> num_supervision,
                     rng_at |-> rng,
                     sampled |-> sampled,
                     constructed_list |-> list,
                     written |-> FALSE]]
        /\ rng' = IF sampled THEN np_random_advance(rng) ELSE rng
        /\ result' = Outcome("init", QC(d), 0, "ok", Nothing)
        /\ UNCHANGED <<pp, mt>>

QuestionCodingDataset_len_return(d) == TokensReader_len(qc[d]._tokens)

\* The flag read one position early: self._supervision_list[index - 1].
QuestionCodingDataset_getitem_return_early(d, index) ==
    LET item == TokensReader_getitem(qc[d]._tokens, index)
    IN  IF item.status = "raised" THEN item
        ELSE Returned([program |-> TensorOfInts(item.value.program),
                       question |-> TensorOfInts(item.value.question),
                       supervision |->
                           EntryOf(d, (index - 1) % Len0(qc[d]._supervision_list))])

QuestionCodingDataset_getitem_return(d, index) ==
    LET item == TokensReader_getitem(qc[d]._tokens, index)
    IN  IF item.status = "raised" THEN item
        ELSE Returned([program |-> TensorOfInts(item.value.program),
                       question |-> TensorOfInts(item.value.question),
                       supervision |-> EntryOf(d, index)])

QuestionCodingDataset_split_return(d) == qc[d]._tokens.split

QuestionCodingDataset_get_supervision_list_return(d) == WholeOf(d)

QuestionCodingDataset_len(d) ==
    /\ qc[d] # NoDataset
    /\ result' = Outcome("len", QC(d), 0, "ok",
                         [len |-> QuestionCodingDataset_len_return(d)])
    /\ UNCHANGED <<rng, pp, qc, mt>>

\* __getitem__ that clears the flag it hands out.
QuestionCodingDataset_getitem_consuming(d, index) ==
    /\ qc[d] # NoDataset
    /\ LET r == QuestionCodingDataset_getitem_return(d, index)
       IN  /\ result' = Outcome("get", QC(d), index, r.status, r.value)
           /\ qc' = IF r.status = "ok"
                    THEN [qc EXCEPT ![d]._supervision_list[index] = 0]
                    ELSE qc
    /\ UNCHANGED <<rng, pp, mt>>

QuestionCodingDataset_getitem(d, index) ==
    /\ qc[d] # NoDataset
    /\ LET r == QuestionCodingDataset_getitem_return(d, index)
       IN  result' = Outcome("get", QC(d), index, r.status, r.value)
    /\ UNCHANGED <<rng, pp, qc, mt>>

QuestionCodingDataset_split(d) ==
    /\ qc[d] # NoDataset
    /\ result' = Outcome("split", QC(d), 0, "ok",
                         [split |-> QuestionCodingDataset_split_return(d)])
    /\ UNCHANGED <<rng, pp, qc, mt>>

QuestionCodingDataset_get_supervision_list(d) ==
    /\ qc[d] # NoDataset
    /\ result' = Outcome("get_supervision_list", QC(d), 0, "ok",
                         QuestionCodingDataset_get_supervision_list_return(d))
    /\ UNCHANGED <<rng, pp, qc, mt>>

\* The caller writes value into entry i of the tensor get_supervision_list()
\* just returned (lst[i] = value): the tensor is the dataset's own.
Caller_write_list(i, value) ==
    /\ result.op = "get_supervision_list"
    /\ i \in DOMAIN Read(result.value)
    /\ qc' = [qc EXCEPT ![result.value.storage]._supervision_list[i] = value,
                        ![result.value.storage].written = TRUE]
    /\ UNCHANGED <<rng, pp, mt, result>>

\* The caller writes value into the "supervision" tensor of the record
\* __getitem__ just returned (item["supervision"].fill_(value)): the tensor
\* is a view of the dataset's list.
Caller_write_supervision(value) ==
    /\ result.op = "get" /\ result.ds.kind = "qc" /\ result.status = "ok"
    /\ LET view == result.value.supervision
       IN  qc' = [qc EXCEPT ![view.storage]._supervision_list[view.at] = value,
                            ![view.storage].written = TRUE]
    /\ UNCHANGED <<rng, pp, mt, result>>

----------------------------------------------------------------------------
(* ModuleTrainingDataset                                                   *)

\* The overfit flag ignored: no truncation.
ModuleTrainingDataset_tokens_untruncated(reader, overfit) == reader

\* Lines 118-122: the token reader the dataset keeps.
ModuleTrainingDataset_tokens(reader, overfit) ==
    IF overfit THEN TokensReader_prefix(reader, OverfitSize) ELSE reader

\* from_path, from_features and overfit record the construction; the code
\* reads none.
ModuleTrainingDataset_init(tokens_hdfpath, features_hdfpath, in_memory, overfit) ==
    /\ mt' = [kind |-> "mt",
              _tokens |-> ModuleTrainingDataset_tokens(
                              ClevrTokensReader(tokens_hdfpath), overfit),
              _features |-> ClevrFeaturesReader(features_hdfpath, in_memory),
              from_path |-> tokens_hdfpath,
              from_features |-> features_hdfpath,
              overfit |-> overfit]
    /\ result' = Outcome("init", MT, 0, "ok", Nothing)
    /\ UNCHANGED <<rng, pp, qc>>

ModuleTrainingDataset_len_return == TokensReader_len(mt._tokens)

\* The feature record looked up under the dataset index.
ModuleTrainingDataset_getitem_return_by_index(index) ==
    LET item == TokensReader_getitem(mt._tokens, index)
    IN  IF item.status = "raised" THEN item
        ELSE LET features == FeaturesReader_getitem(mt._features, index)
             IN  IF features.status = "raised" THEN features
                 ELSE Returned([question |-> TensorOfInts(item.value.question),
                                answer |-> TensorOfInts(item.value.answer),
                                image |-> TensorOfInts(features.value.features)])

\* A missing feature record caught and replaced by an empty image.
ModuleTrainingDataset_getitem_return_substituting(index) ==
    LET item == TokensReader_getitem(mt._tokens, index)
    IN  IF item.status = "raised" THEN item
        ELSE LET features == FeaturesReader_getitem(mt._features, item.value.image_index)
             IN  Returned([question |-> TensorOfInts(item.value.question),
                           answer |-> TensorOfInts(item.value.answer),
                           image |-> IF features.status = "raised" THEN <<>>
                                     ELSE TensorOfInts(features.value.features)])

ModuleTrainingDataset_getitem_return(index) ==
    LET item == TokensReader_getitem(mt._tokens, index)
    IN  IF item.status = "raised" THEN item
        ELSE LET features == FeaturesReader_getitem(mt._features, item.value.image_index)
             IN  IF features.status = "raised" THEN features
                 ELSE Returned([question |-> TensorOfInts(item.value.question),
                                answer |-> TensorOfInts(item.value.answer),
                                image |-> TensorOfInts(features.value.features)])

\* split hard-coded.
ModuleTrainingDataset_split_return_train == "train"

ModuleTrainingDataset_split_return == mt._tokens.split

ModuleTrainingDataset_len ==
    /\ mt # NoDataset
    /\ result' = Outcome("len", MT, 0, "ok", [len |-> ModuleTrainingDataset_len_return])
    /\ UNCHANGED <<rng, pp, qc, mt>>

ModuleTrainingDataset_getitem(index) ==
    /\ mt # NoDataset
    /\ LET r == ModuleTrainingDataset_getitem_return(index)
       IN  result' = Outcome("get", MT, index, r.status, r.value)
    /\ UNCHANGED <<rng, pp, qc, mt>>

ModuleTrainingDataset_split ==
    /\ mt # NoDataset
    /\ result' = Outcome("split", MT, 0, "ok",
                         [split |-> ModuleTrainingDataset_split_return])
    /\ UNCHANGED <<rng, pp, qc, mt>>

----------------------------------------------------------------------------
(* Specifications.                                                         *)

\* No dataset is constructed yet; the generator is in whatever state the
\* process started it in.
Init ==
    /\ rng \in 0 .. (NumStates - 1)
    /\ pp = NoDataset
    /\ qc = [d \in QCIds |-> NoDataset]
    /\ mt = NoDataset
    /\ result = Outcome("none", Env, 0, "ok", Nothing)

NoneConstructed ==
    pp = NoDataset /\ mt = NoDataset /\ \A d \in QCIds : qc[d] = NoDataset

\* A training script: it seeds the generator, constructs one dataset and
\* calls it.
Next ==
    \/ \E s \in 0 .. (NumStates - 1) : Seed(s)
    \/ \E path \in TokenPaths : NoneConstructed /\ ProgramPriorDataset_init(path)
    \/ ProgramPriorDataset_len
    \/ \E i \in Indices : ProgramPriorDataset_getitem(i)
    \/ ProgramPriorDataset_split
    \/ \E path \in QCPaths, k \in SupervisionCounts :
           NoneConstructed /\ QuestionCodingDataset_init(1, path, k)
    \/ QuestionCodingDataset_len(1)
    \/ \E i \in Indices : QuestionCodingDataset_getitem(1, i)
    \/ QuestionCodingDataset_split(1)
    \/ QuestionCodingDataset_get_supervision_list(1)
    \/ \E path \in TokenPaths, fpath \in FeaturePaths, in_memory, overfit \in BOOLEAN :
           NoneConstructed /\ ModuleTrainingDataset_init(path, fpath, in_memory, overfit)
    \/ ModuleTrainingDataset_len
    \/ \E i \in Indices : ModuleTrainingDataset_getitem(i)
    \/ ModuleTrainingDataset_split

Spec == Init /\ [][Next]_vars

\* A script that constructs a QuestionCodingDataset and then a second one
\* over a token file of the same size and split with the same
\* num_supervision, seeding the generator whenever it likes.
NextRepro ==
    \/ \E s \in 0 .. (NumStates - 1) : Seed(s)
    \/ \E path \in QCPaths, k \in SupervisionCounts :
           qc[1] = NoDataset /\ QuestionCodingDataset_init(1, path, k)
    \/ \E path \in QCPaths :
           /\ qc[1] # NoDataset /\ qc[2] = NoDataset
           /\ path.size = qc[1].from_path.size
           /\ path.split = qc[1].from_path.split
           /\ QuestionCodingDataset_init(2, path, qc[1].num_supervision)
    \/ \E d \in QCIds : QuestionCodingDataset_get_supervision_list(d)

SpecRepro == Init /\ [][NextRepro]_vars

\* A script over one QuestionCodingDataset whose caller also writes into the
\* tensors the dataset handed out.
NextAlias ==
    \/ \E s \in 0 .. (NumStates - 1) : Seed(s)
    \/ \E path \in QCPaths, k \in SupervisionCounts :
           qc[1] = NoDataset /\ QuestionCodingDataset_init(1, path, k)
    \/ QuestionCodingDataset_len(1)
    \/ \E i \in Indices : QuestionCodingDataset_getitem(1, i)
    \/ QuestionCodingDataset_split(1)
    \/ QuestionCodingDataset_get_supervision_list(1)
    \/ \E i \in Indices, value \in {0, 1} : Caller_write_list(i, value)
    \/ \E value \in {0, 1} : Caller_write_supervision(value)

SpecAlias == Init /\ [][NextAlias]_vars

----------------------------------------------------------------------------
(* Properties.                                                             *)

Constructed(d) == qc[d] # NoDataset
Ones(list) == {i \in DOMAIN list : list[i] = 1}
Zeros(list) == {i \in DOMAIN list : list[i] = 0}
AllOnes(list) == \A i \in DOMAIN list : list[i] = 1
\* The list get_supervision_list() hands out for instance d, as it reads now.
SupervisionListOf(d) == Read(QuestionCodingDataset_get_supervision_list_return(d))

\* C1: over a train reader of size n with num_supervision = k < n, the
\* supervision mask has exactly k ones and n-k zeros, whatever the draw.
C1_ExactlyKOnes ==
    \A d \in QCIds :
        (/\ Constructed(d)
         /\ qc[d].from_path.split = "train"
         /\ qc[d].num_supervision < qc[d].from_path.size)
        => /\ Cardinality(Ones(SupervisionListOf(d))) = qc[d].num_supervision
           /\ Cardinality(Zeros(SupervisionListOf(d)))
                  = qc[d].from_path.size - qc[d].num_supervision

\* A train dataset of 3 examples with 2 of them sampled.
C1_Witness ==
    /\ Constructed(1)
    /\ qc[1].from_path.split = "train"
    /\ qc[1].from_path.size = 3
    /\ qc[1].num_supervision = 2
    /\ qc[1].sampled
    /\ SupervisionListOf(1) = (0 :> 1 @@ 1 :> 0 @@ 2 :> 1)

\* C2: on a split other than train, or with num_supervision >= size, the
\* mask is all ones and the sampling step did not run.
C2_FullSupervision ==
    \A d \in QCIds :
        (/\ Constructed(d)
         /\ \/ qc[d].from_path.split # "train"
            \/ qc[d].num_supervision >= qc[d].from_path.size)
        => /\ AllOnes(SupervisionListOf(d))
           /\ DOMAIN SupervisionListOf(d) = Range0(qc[d].from_path.size)
           /\ ~qc[d].sampled

\* A train dataset with num_supervision equal to its size (the boundary).
C2_Witness ==
    /\ Constructed(1)
    /\ qc[1].from_path.split = "train"
    /\ qc[1].from_path.size = 3
    /\ qc[1].num_supervision = 3
    /\ AllOnes(SupervisionListOf(1))
    /\ result.op = "get_supervision_list"

\* C3: get_supervision_list() always returns one entry per example, each
\* exactly 0 or 1.
C3_ListShape ==
    /\ \A d \in QCIds :
           Constructed(d) =>
               /\ DOMAIN SupervisionListOf(d) = Range0(QuestionCodingDataset_len_return(d))
               /\ \A i \in DOMAIN SupervisionListOf(d) : SupervisionListOf(d)[i] \in {0, 1}
    /\ result.op = "get_supervision_list" =>
           /\ Len0(Read(result.value)) = QuestionCodingDataset_len_return(result.ds.id)
           /\ \A i \in DOMAIN Read(result.value) : Read(result.value)[i] \in {0, 1}

\* get_supervision_list() returned a list holding both a 0 and a 1.
C3_Witness ==
    /\ result.op = "get_supervision_list"
    /\ Ones(Read(result.value)) # {}
    /\ Zeros(Read(result.value)) # {}

\* C4 as stated: whatever the caller does with the returned values, the
\* dataset's mask is the one computed in construction.
C4_MaskFixedWhateverTheCallerDoes ==
    \A d \in QCIds :
        Constructed(d) => qc[d]._supervision_list = qc[d].constructed_list

\* C4: the dataset's own operations (get, size, split, get_supervision_list)
\* never change the mask: as long as the caller has not written into a tensor
\* the dataset returned, the mask is the one computed in construction.
C4_MaskFixedUnlessCallerWrites ==
    \A d \in QCIds :
        (Constructed(d) /\ ~qc[d].written)
        => qc[d]._supervision_list = qc[d].constructed_list

\* get(i) has returned from a sampled dataset and nothing was written.
C4_Witness ==
    /\ Constructed(1)
    /\ qc[1].sampled
    /\ qc[1].num_supervision > 0
    /\ ~qc[1].written
    /\ result.op = "get" /\ result.status = "ok"
    /\ Read(result.value.supervision) = 1

\* C5: two constructions over readers of the same size and split, with the
\* same num_supervision and from the same generator state, have the same mask.
C5_SameStateSameMask ==
    \A d1, d2 \in QCIds :
        (/\ Constructed(d1) /\ Constructed(d2)
         /\ qc[d1].from_path.size = qc[d2].from_path.size
         /\ qc[d1].from_path.split = qc[d2].from_path.split
         /\ qc[d1].num_supervision = qc[d2].num_supervision
         /\ qc[d1].rng_at = qc[d2].rng_at)
        => SupervisionListOf(d1) = SupervisionListOf(d2)

\* Two sampled datasets over different token files, built from the same
\* generator state.
C5_Witness ==
    /\ Constructed(1) /\ Constructed(2)
    /\ qc[1].sampled /\ qc[2].sampled
    /\ qc[1].num_supervision = 1
    /\ qc[1].from_path.size = 3
    /\ qc[1].from_path # qc[2].from_path
    /\ qc[1].rng_at = qc[2].rng_at
    /\ result.op = "get_supervision_list"

\* The token and feature readers the ModuleTrainingDataset was built from.
OriginalTokens == ClevrTokensReader(mt.from_path)
OriginalFeatures == ClevrFeaturesReader(mt.from_features, TRUE)
\* The record get must build from example record rec.
BuiltFrom(rec, value) ==
    /\ value.question = rec.question
    /\ value.answer = rec.answer
    /\ value.image = OriginalFeatures.records[rec.image_index].features

\* C6: with overfit=True size() is min(5, n) and get(i) is built from the
\* i-th original token record; with overfit=False size() is n.
C6_OverfitPrefix ==
    mt # NoDataset =>
        /\ ModuleTrainingDataset_len_return
               = IF mt.overfit THEN Min(5, mt.from_path.size) ELSE mt.from_path.size
        /\ \A i \in Range0(ModuleTrainingDataset_len_return) :
               /\ i \in DOMAIN OriginalTokens.items
               /\ ModuleTrainingDataset_getitem_return(i).status = "ok" =>
                      BuiltFrom(OriginalTokens.items[i],
                                ModuleTrainingDataset_getitem_return(i).value)
        /\ (result.op = "len" /\ result.ds = MT) =>
               result.value.len
                   = IF mt.overfit THEN Min(5, mt.from_path.size) ELSE mt.from_path.size

\* An overfit dataset over 6 examples answered get(4).
C6_Witness ==
    /\ mt # NoDataset
    /\ mt.overfit
    /\ mt.from_path.size = 6
    /\ ModuleTrainingDataset_len_return = 5
    /\ result.op = "get" /\ result.ds = MT /\ result.index = 4 /\ result.status = "ok"

\* C7: get(i) returns exactly question, answer and image; question and
\* answer are those of tokens[i], image is the features of the feature record
\* under tokens[i].image_index.
C7_GetResolvesImageIndex ==
    /\ mt # NoDataset =>
           \A i \in DOMAIN mt._tokens.items :
               LET rec == mt._tokens.items[i]
                   r == ModuleTrainingDataset_getitem_return(i)
               IN  rec.image_index \in DOMAIN mt._features.records =>
                       /\ r.status = "ok"
                       /\ DOMAIN r.value = {"question", "answer", "image"}
                       /\ r.value.question = rec.question
                       /\ r.value.answer = rec.answer
                       /\ r.value.image = mt._features.records[rec.image_index].features
    /\ (result.op = "get" /\ result.ds = MT /\ result.status = "ok") =>
           LET rec == mt._tokens.items[result.index]
           IN  /\ DOMAIN result.value = {"question", "answer", "image"}
               /\ result.value.question = rec.question
               /\ result.value.answer = rec.answer
               /\ result.value.image = mt._features.records[rec.image_index].features

\* get(i) returned for an example whose image_index is not i, while the
\* feature reader also holds a record under i.
C7_Witness ==
    /\ result.op = "get" /\ result.ds = MT /\ result.status = "ok"
    /\ mt._tokens.items[result.index].image_index # result.index
    /\ result.index \in DOMAIN mt._features.records

\* The token reader behind the dataset a call was made on.
ReaderOf(ds) ==
    IF ds.kind = "pp" THEN pp._reader
    ELSE IF ds.kind = "qc" THEN qc[ds.id]._tokens
    ELSE mt._tokens

\* What the readers answer to the lookups get(index) makes on dataset ds:
\* the first error, or ok.
LookupOf(ds, index) ==
    LET item == TokensReader_getitem(ReaderOf(ds), index)
    IN  IF item.status = "raised" \/ ds.kind # "mt" THEN item
        ELSE FeaturesReader_getitem(mt._features, item.value.image_index)

\* A get ends as the readers' lookups end.
C8_GetEndsAsLookup ==
    result.op = "get" =>
        LET lookup == LookupOf(result.ds, result.index)
        IN  /\ result.status = lookup.status
            /\ lookup.status = "raised" => result.value = lookup.value

\* A get that raised changed neither a dataset nor the generator.
C8_FailedGetChangesNothing ==
    (result'.op = "get" /\ result'.status = "raised") => UNCHANGED <<rng, pp, qc, mt>>

\* C8: in the three datasets a get whose reader lookup fails raises that
\* same error, returns no record and changes no state, so that a later get
\* with a valid index succeeds.
C8_LookupErrorsPropagate ==
    [](C8_GetEndsAsLookup) /\ [][C8_FailedGetChangesNothing]_vars

\* A ModuleTrainingDataset get raised the feature reader's error for a valid
\* index.
C8_Witness ==
    /\ result.op = "get" /\ result.ds = MT /\ result.status = "raised"
    /\ result.index \in DOMAIN mt._tokens.items
    /\ result.value = [error |-> "KeyError"]

\* C9: get(i) of a QuestionCodingDataset returns exactly program, question
\* and supervision; program and question are those of tokens[i] and
\* supervision is entry i of the list get_supervision_list() returns.
C9_FlagAgreesWithList ==
    /\ \A d \in QCIds :
           Constructed(d) =>
               \A i \in DOMAIN qc[d]._tokens.items :
                   LET r == QuestionCodingDataset_getitem_return(d, i)
                   IN  /\ r.status = "ok"
                       /\ DOMAIN r.value = {"program", "question", "supervision"}
                       /\ r.value.program = qc[d]._tokens.items[i].program
                       /\ r.value.question = qc[d]._tokens.items[i].question
                       /\ Read(r.value.supervision) = SupervisionListOf(d)[i]
    /\ (result.op = "get" /\ result.ds.kind = "qc" /\ result.status = "ok") =>
           /\ DOMAIN result.value = {"program", "question", "supervision"}
           /\ result.value.program
                  = qc[result.ds.id]._tokens.items[result.index].program
           /\ result.value.question
                  = qc[result.ds.id]._tokens.items[result.index].question
           /\ Read(result.value.supervision)
                  = SupervisionListOf(result.ds.id)[result.index]

\* get(i) returned flag 0 from a dataset whose list also holds a 1.
C9_Witness ==
    /\ result.op = "get" /\ result.ds.kind = "qc" /\ result.status = "ok"
    /\ Read(result.value.supervision) = 0
    /\ Ones(SupervisionListOf(result.ds.id)) # {}

\* C10: split of each dataset is the split tag of the token reader it was
\* constructed from, at all times.
C10_SplitIsTheReadersSplit ==
    /\ pp # NoDataset =>
           ProgramPriorDataset_split_return = ClevrTokensReader(pp.from_path).split
    /\ \A d \in QCIds :
           Constructed(d) =>
               QuestionCodingDataset_split_return(d)
                   = ClevrTokensReader(qc[d].from_path).split
    /\ mt # NoDataset =>
           ModuleTrainingDataset_split_return = ClevrTokensReader(mt.from_path).split
    /\ result.op = "split" =>
           result.value.split
               = IF result.ds.kind = "pp" THEN pp.from_path.split
                 ELSE IF result.ds.kind = "qc" THEN qc[result.ds.id].from_path.split
                 ELSE mt.from_path.split

\* split was read on an overfit ModuleTrainingDataset over a val reader.
C10_Witness ==
    /\ result.op = "split" /\ result.ds = MT
    /\ mt.overfit
    /\ mt.from_path.split = "val"
    /\ mt.from_path.size > 5
    /\ result.value.split = "val"

====
